---- MODULE Spec2Model ----
(***************************************************************************)
(* Chattrix (src/app.py): the Socket.IO event handlers, the in-memory      *)
(* presence and location dictionaries, the room memberships kept by the    *)
(* Socket.IO server, and the message / conversation / push-subscription    *)
(* tables, as the file runs with its ORM classes exactly as declared.      *)
(*                                                                         *)
(* The ORM classes declare their columns as nId, strUsername,              *)
(* strDisplayName, bIsAdmin, strProfilePic (User), nSenderId,              *)
(* nRecipientId, bIsPrivate, bPinned (Message), nUser1Id, nUser2Id,        *)
(* nLastMessageId (Conversation), and declare no synonym.  The routes      *)
(* subscribe, subscribePush, testPushNotification,                         *)
(* testBrowserNotification and privateChatPage and the functions           *)
(* send_web_push and getOrCreateConversation use these names.  The         *)
(* Socket.IO handlers and uploadFilePage read current_user.id, .username,  *)
(* .display_name, .profile_pic and .is_admin, which no class declares:     *)
(* the first such read of a run raises AttributeError.  What a handler did *)
(* before that read stays done (the join_room of join_private_room, the    *)
(* emit of get_online_users); nothing after it happens.  So no handler     *)
(* writes dictOnlineUsers or dictUserLocations, no connection joins a      *)
(* personal room, no Message row is stored; Conversation rows come from    *)
(* privateChatPage only.  The statements of a handler after its raising    *)
(* read are not part of the model.                                         *)
(*                                                                         *)
(* No handler has a try/except and no on_error handler is registered.  An  *)
(* exception in the connect handler leaves the connection registered with  *)
(* the Socket.IO server (the server registers the sid before it calls the  *)
(* handler and removes it only when the handler refuses the connection).   *)
(* An exception in the disconnect handler keeps the server from reaching   *)
(* the call that removes the sid from its rooms.                           *)
(*                                                                         *)
(* emit() inside a handler follows Flask-SocketIO: without room= and       *)
(* without broadcast=True the event goes to the connection that sent the   *)
(* event being handled (request.sid); with room= it goes to every          *)
(* connection in that room.                                                *)
(*                                                                         *)
(* webpush() follows pywebpush: it raises WebPushException carrying the    *)
(* requests.Response of the push service for every status above 202, and   *)
(* the truth value of a requests.Response is Response.ok.                  *)
(*                                                                         *)
(* A handler or route is one atomic action where it waits for nothing.     *)
(* The subscribe route (SpecPush), send_web_push (SpecPush) and            *)
(* getOrCreateConversation (SpecRace) are also taken one storage or        *)
(* network call per step, with other requests running in between; the      *)
(* variable inflight holds the requests that are between two steps.        *)
(***************************************************************************)
EXTENDS Integers, Sequences, FiniteSets, TLC

\* ---------------------------------------------------------------- bounds
NUsers == 2
MaxSid == 3
MaxSubs == 2
MaxPairJoins == 1
MaxEvents == 5
MaxTasks == 2

Users == 1..NUsers
Sids == 1..MaxSid
Anonymous == 0
Closed == -1
NoId == 0
\* An id that names no user.
Stranger == NUsers + 1

\* ------------------------------------------------------------- utilities
Min(a, b) == IF a <= b THEN a ELSE b
Max(a, b) == IF a >= b THEN a ELSE b

RECURSIVE SortedSeq(_)
SortedSeq(S) ==
  IF S = {} THEN <<>>
  ELSE LET m == CHOOSE x \in S : \A y \in S : x <= y
       IN <<m>> \o SortedSeq(S \ {m})

\* A Python dict held by the server, kept as the list of its items in
\* insertion order.
DictKeys(d) == {d[i].key : i \in DOMAIN d}
DictHas(d, k) == k \in DictKeys(d)
DictGet(d, k) == d[CHOOSE i \in DOMAIN d : d[i].key = k].value
DictSet(d, k, v) ==
  IF DictHas(d, k)
  THEN [i \in DOMAIN d |-> IF d[i].key = k THEN [key |-> k, value |-> v] ELSE d[i]]
  ELSE Append(d, [key |-> k, value |-> v])
DictValues(d) == [i \in DOMAIN d |-> d[i].value]

\* The payload of an event is a record: keys is the set of keys the dict
\* has, and the record has a field for every key the handlers look at.
\* data.get(key, default)
get(data, key, default) == IF key \in data.keys THEN data[key] ELSE default
NoData == [keys |-> {}]

\* ------------------------------------------------------------ text model
\* A text is a sequence of characters; " " is whitespace.
Blank == " "
RECURSIVE lstrip(_)
lstrip(t) == IF t # <<>> /\ Head(t) = Blank THEN lstrip(Tail(t)) ELSE t
RECURSIVE rstrip(_)
rstrip(t) ==
  IF t # <<>> /\ t[Len(t)] = Blank THEN rstrip(SubSeq(t, 1, Len(t) - 1)) ELSE t
\* Variant: the text as sent.
strip_None(t) == t
strip(t) == rstrip(lstrip(t))

\* Bodies of public sends: empty, whitespace only, and one that strip()
\* changes.  Bodies of private sends: empty and non-empty.
Texts == { <<>>, <<" ">>, <<" ", "h">> }
PrivateTexts == { <<>>, <<"h">> }

\* ------------------------------------------------------------ room names
user_room(u) == [kind |-> "user", a |-> u, b |-> NoId]
\* Variant: the ids in call order.
private_room_Unsorted(user1_id, user2_id) ==
  [kind |-> "private", a |-> user1_id, b |-> user2_id]
\* f"private_{min(user1_id, user2_id)}_{max(user1_id, user2_id)}"
private_room(user1_id, user2_id) ==
  [kind |-> "private", a |-> Min(user1_id, user2_id), b |-> Max(user1_id, user2_id)]
NoRoom == [kind |-> "none", a |-> NoId, b |-> NoId]

\* ------------------------------------------------------- location tokens
PublicChat == [kind |-> "public_chat", other |-> NoId]
PrivateChat(u) == [kind |-> "private_chat", other |-> u]
Locations == {PublicChat} \cup {PrivateChat(u) : u \in Users}

\* ---------------------------------------------------- declared attributes
\* The names an instance of User answers to: the columns of the class, the
\* backrefs of the Message relationships, get_id, and what UserMixin adds.
User ==
  {"nId", "strDisplayName", "strUsername", "strPasswordHash", "bIsAdmin",
   "strProfilePic", "strBio", "sent_messages", "received_messages", "get_id",
   "is_authenticated", "is_active", "is_anonymous"}
\* Reading current_user.<name> on a logged-in connection: the read succeeds
\* for a name of the class and raises AttributeError for any other.
read(name) == IF name \in User THEN "ok" ELSE "AttributeError"
\* The users whose bIsAdmin column is true.
Admins == {1}

VARIABLES
  connections,        \* sid -> Closed, Anonymous or the user of the open connection
  dictOnlineUsers,    \* the online-users registry
  dictUserLocations,  \* user id -> location token
  rooms,              \* set of <<room, sid>>: the Socket.IO room memberships
  messages,           \* Message table, row i has id i
  conversations,      \* Conversation table, row i has id i
  subscriptions,      \* PushSubscription table
  emitted,            \* events delivered while handling the last event, in order
  pushCalls,          \* send_web_push calls of the last event: the target users, in order
  pushLog,            \* transport attempts of the last event
  clientSnapshot,     \* sid -> the payload of the last online_users event it was sent
  last,               \* the last event handled
  nEvents,            \* number of events handled so far
  inflight            \* requests that run one call per step: task -> progress

vars == <<connections, dictOnlineUsers, dictUserLocations, rooms, messages,
          conversations, subscriptions, emitted, pushCalls, pushLog, clientSnapshot,
          last, nEvents, inflight>>

storage == <<messages, conversations, subscriptions>>
memory == <<dictOnlineUsers, dictUserLocations>>

\* The record of a handled Socket.IO event, and of a handled HTTP request of
\* the logged-in user u.
Event(name, sid, data, result) ==
  [name |-> name, sid |-> sid, user |-> connections[sid], data |-> data,
   result |-> result]
Request(name, u, data, result) ==
  [name |-> name, sid |-> 0, user |-> u, data |-> data, result |-> result]

OpenSids == {s \in Sids : connections[s] # Closed}
\* Variant: every open connection counts as logged in.
is_authenticated_Any(sid) == connections[sid] # Closed
\* current_user.is_authenticated
is_authenticated(sid) == connections[sid] \in Users
SidsOf(u) == {s \in Sids : connections[s] = u}

\* A request slot; Idle is a slot with no request running.
Tasks == 1..MaxTasks
Idle == [pc |-> "idle", user |-> NoId, other |-> NoId, text |-> <<>>,
         deleted |-> {}, ids |-> <<>>, log |-> <<>>]

Init ==
  /\ inflight = [t \in Tasks |-> Idle]
  /\ connections = [s \in Sids |-> Closed]
  /\ dictOnlineUsers = <<>>
  /\ dictUserLocations = <<>>
  /\ rooms = {}
  /\ messages = <<>>
  /\ conversations = <<>>
  /\ subscriptions = {}
  /\ emitted = <<>>
  /\ pushCalls = <<>>
  /\ pushLog = <<>>
  /\ clientSnapshot = [s \in Sids |-> <<>>]
  /\ last = Request("init", Anonymous, NoData, "ok")
  /\ nEvents = 0

\* ------------------------------------------------------------------ emit
Msg(event, kind, body) ==
  [event |-> event, sid |-> 0, id |-> NoId, kind |-> kind, body |-> body,
   users |-> <<>>]

\* The online_users event carries list(dictOnlineUsers.values()).
OnlineUsersMsg(registry) ==
  [Msg("online_users", "", <<>>) EXCEPT !.users = DictValues(registry)]

RoomSids(rms, room) == {s \in Sids : <<room, s>> \in rms /\ connections[s] # Closed}

\* flask_socketio.emit called in the handler of an event from connection sid:
\* to the connections of a room, or to request.sid when no room is named.
emit(rms, msg, sid, to) ==
  LET order == SortedSeq(IF to = NoRoom THEN {sid} ELSE RoomSids(rms, to))
  IN [i \in DOMAIN order |-> [msg EXCEPT !.sid = order[i]]]

\* objSocketIo.emit outside a handler: to the connections of a room.
server_emit(rms, msg, to) ==
  LET order == SortedSeq(RoomSids(rms, to))
  IN [i \in DOMAIN order |-> [msg EXCEPT !.sid = order[i]]]

\* flask_socketio.join_room for the connection sid.
join_room(rms, room, sid) == rms \cup {<<room, sid>>}

\* The clients' views after the events in out have been delivered: a client
\* holds no snapshot (the empty sequence) or the list of the last
\* online_users event it was sent.
Receive(snap, out) ==
  [s \in Sids |->
     LET mine == {i \in DOMAIN out : out[i].sid = s /\ out[i].event = "online_users"}
     IN IF mine = {} THEN snap[s]
        ELSE << out[CHOOSE i \in mine : \A j \in mine : j <= i].users >>]

\* What the run of a handler or route leaves behind apart from the
\* dictionaries, the rooms and the tables: its record and what it emitted.
Handled(ev, out) ==
  /\ last' = ev
  /\ emitted' = out
  /\ pushCalls' = <<>>
  /\ pushLog' = <<>>

\* ----------------------------------------------- connection event handlers
\* A new connection takes the lowest sid that is free; a sid is free when no
\* connection has it and no room still lists it.
FreeSids == {s \in Sids : connections[s] = Closed /\ \A m \in rooms : m[2] # s}
NewSid == CHOOSE s \in FreeSids : \A t \in FreeSids : s <= t

\* handle_connect for a client logged in as u, or not logged in: the server
\* has registered the connection when the handler runs.  For a logged-in
\* client the handler builds the registry entry first, and the first value of
\* that dict is current_user.id (1158).
handle_connect(u) ==
  /\ FreeSids # {}
  /\ u \in Users => read("id") = "AttributeError"
  /\ connections' = [connections EXCEPT ![NewSid] = u]
  /\ Handled([Event("connect", NewSid, NoData,
                    IF u \in Users THEN read("id") ELSE "dropped") EXCEPT !.user = u],
             <<>>)
  /\ UNCHANGED <<memory, rooms, storage, clientSnapshot>>

\* handle_disconnect: the connection is gone when the handler runs.  For a
\* logged-in connection the handler raises at "current_user.id in
\* dictOnlineUsers" (1189) and the server does not get to the call that takes
\* the sid out of its rooms; for any other connection the handler returns and
\* the server takes the sid out of every room.
handle_disconnect(sid) ==
  /\ connections[sid] # Closed
  /\ is_authenticated(sid) => read("id") = "AttributeError"
  /\ rooms' = IF is_authenticated(sid) THEN rooms ELSE {m \in rooms : m[2] # sid}
  /\ connections' = [connections EXCEPT ![sid] = Closed]
  /\ clientSnapshot' = [clientSnapshot EXCEPT ![sid] = <<>>]
  /\ Handled(Event("disconnect", sid, NoData,
                   IF is_authenticated(sid) THEN read("id") ELSE "dropped"),
             <<>>)
  /\ UNCHANGED <<memory, storage>>

\* handle_user_location: data.get('location'), then the key of the assignment
\* to dictUserLocations is current_user.id (1218).
handle_user_location(sid, location) ==
  /\ connections[sid] # Closed
  /\ is_authenticated(sid) => read("id") = "AttributeError"
  /\ Handled(Event("user_location", sid,
                   [keys |-> {"location"}, location |-> location],
                   IF is_authenticated(sid) THEN read("id") ELSE "dropped"),
             <<>>)
  /\ UNCHANGED <<connections, memory, rooms, storage, clientSnapshot>>

\* handle_join_user_room: the argument of join_room is built from
\* current_user.id (1238).
handle_join_user_room(sid) ==
  /\ connections[sid] # Closed
  /\ is_authenticated(sid) => read("id") = "AttributeError"
  /\ Handled(Event("join_user_room", sid, NoData,
                   IF is_authenticated(sid) THEN read("id") ELSE "dropped"),
             <<>>)
  /\ UNCHANGED <<connections, memory, rooms, storage, clientSnapshot>>

PairMemberships == {m \in rooms : m[1].kind = "private"}

\* handle_join_private_room: the room is joined (1272), then the print of the
\* next line reads current_user.id (1273).
handle_join_private_room(sid, user1_id, user2_id) ==
  /\ connections[sid] # Closed
  /\ is_authenticated(sid) => read("id") = "AttributeError"
  /\ LET room == private_room(user1_id, user2_id)
     IN /\ (is_authenticated(sid) /\ <<room, sid>> \notin rooms)
              => Cardinality(PairMemberships) < MaxPairJoins
        /\ rooms' = IF is_authenticated(sid) THEN join_room(rooms, room, sid) ELSE rooms
  /\ Handled(Event("join_private_room", sid,
                   [keys |-> {"user1_id", "user2_id"},
                    user1_id |-> user1_id, user2_id |-> user2_id],
                   IF is_authenticated(sid) THEN read("id") ELSE "dropped"),
             <<>>)
  /\ UNCHANGED <<connections, memory, storage, clientSnapshot>>

\* handle_get_online_users: the list is emitted to the connection (1290),
\* then the print of the next line reads current_user.username (1291).
handle_get_online_users(sid) ==
  /\ connections[sid] # Closed
  /\ is_authenticated(sid) => read("username") = "AttributeError"
  /\ LET out == IF is_authenticated(sid)
                THEN emit(rooms, OnlineUsersMsg(dictOnlineUsers), sid, NoRoom)
                ELSE <<>>
     IN /\ clientSnapshot' = Receive(clientSnapshot, out)
        /\ Handled(Event("get_online_users", sid, NoData,
                         IF is_authenticated(sid) THEN read("username") ELSE "dropped"),
                   out)
  /\ UNCHANGED <<connections, memory, rooms, storage>>

\* handle_heartbeat reads no attribute of the user: a logged-in connection is
\* answered with heartbeat_response, any other with nothing.
handle_heartbeat(sid) ==
  /\ connections[sid] # Closed
  /\ Handled(Event("heartbeat", sid, NoData,
                   IF is_authenticated(sid) THEN "ok" ELSE "dropped"),
             IF is_authenticated(sid)
             THEN emit(rooms, Msg("heartbeat_response", "", <<>>), sid, NoRoom)
             ELSE <<>>)
  /\ UNCHANGED <<connections, memory, rooms, storage, clientSnapshot>>

\* handle_user_joined: the text of the join message is built from
\* current_user.display_name (1724), before the emit.
handle_user_joined(sid) ==
  /\ connections[sid] # Closed
  /\ is_authenticated(sid) => read("display_name") = "AttributeError"
  /\ Handled(Event("user_joined", sid, NoData,
                   IF is_authenticated(sid) THEN read("display_name") ELSE "dropped"),
             <<>>)
  /\ UNCHANGED <<connections, memory, rooms, storage, clientSnapshot>>

\* Variant: the handler first stores the chat type as the location of
\* current_user.nId.
handle_typing_Tracked(sid, chat_type, recipient_id) ==
  /\ connections[sid] # Closed
  /\ is_authenticated(sid) => read("id") = "AttributeError"
  /\ dictUserLocations' =
       IF is_authenticated(sid)
       THEN DictSet(dictUserLocations, connections[sid], chat_type)
       ELSE dictUserLocations
  /\ Handled(Event("typing", sid,
                   [keys |-> {"chat_type", "recipient_id"},
                    chat_type |-> chat_type, recipient_id |-> recipient_id],
                   IF is_authenticated(sid) THEN read("id") ELSE "dropped"),
             <<>>)
  /\ UNCHANGED <<connections, dictOnlineUsers, rooms, storage, clientSnapshot>>
\* handle_typing: the three data.get calls, then typing_data is built, and its
\* first value is current_user.id (1765); the emits come after it.
handle_typing(sid, chat_type, recipient_id) ==
  /\ connections[sid] # Closed
  /\ is_authenticated(sid) => read("id") = "AttributeError"
  /\ dictUserLocations' = dictUserLocations
  /\ Handled(Event("typing", sid,
                   [keys |-> {"chat_type", "recipient_id"},
                    chat_type |-> chat_type, recipient_id |-> recipient_id],
                   IF is_authenticated(sid) THEN read("id") ELSE "dropped"),
             <<>>)
  /\ UNCHANGED <<connections, dictOnlineUsers, rooms, storage, clientSnapshot>>

\* handle_pin_message and handle_unpin_message: "not (current_user.
\* is_authenticated and current_user.is_admin)" (1636, 1681).  A connection
\* that is not logged in is answered with an error event; for a logged-in
\* one the test reads current_user.is_admin.
pin_event(name, sid, message_id) ==
  /\ connections[sid] # Closed
  /\ is_authenticated(sid) => read("is_admin") = "AttributeError"
  /\ Handled(Event(name, sid, [keys |-> {"message_id"}, message_id |-> message_id],
                   IF is_authenticated(sid) THEN read("is_admin") ELSE "error"),
             IF is_authenticated(sid) THEN <<>>
             ELSE emit(rooms, Msg("error", "Admin access required", <<>>), sid, NoRoom))
  /\ UNCHANGED <<connections, memory, rooms, storage, clientSnapshot>>
handle_pin_message(sid, message_id) == pin_event("pin_message", sid, message_id)
handle_unpin_message(sid, message_id) == pin_event("unpin_message", sid, message_id)

\* ------------------------------------------------------- public messages
\* What one run of a message handler does, as a value: how it ended, the
\* Message and Conversation rows after it, what it emitted and the
\* send_web_push calls it made.  A run that returns or raises before its first
\* write leaves the rows as they were.
Stopped(result, out) ==
  [result |-> result, messages |-> messages, conversations |-> conversations,
   emitted |-> out, calls |-> <<>>]

\* The payload of a public send: a dict, with or without the key 'text', or
\* a bare string.
Dict(t) == [type |-> "dict", keys |-> {"text"}, text |-> t]
Str(t) == [type |-> "str", keys |-> {}, text |-> t]
Payloads ==
  {Dict(t) : t \in Texts} \cup {[type |-> "dict", keys |-> {}, text |-> <<>>]}
  \cup {Str(<<" ">>), Str(<<" ", "h">>)}

\* handle_send_message (1401-1411): a connection that is not logged in is
\* dropped; data.get raises AttributeError on a string; a text that is empty
\* after strip() is dropped; the first argument of the Message constructor is
\* current_user.id.
handle_send_message(sid, data) ==
  IF ~is_authenticated(sid) THEN Stopped("dropped", <<>>)
  ELSE IF data.type = "str" THEN Stopped("AttributeError", <<>>)
  ELSE IF strip(get(data, "text", <<>>)) = <<>> THEN Stopped("dropped", <<>>)
  ELSE Stopped(read("id"), <<>>)

handle_message(sid, data) == handle_send_message(sid, data)
\* "if isinstance(data, str): data = {'text': data}"
handle_new_message(sid, data) ==
  handle_send_message(sid, IF data.type = "str" THEN Dict(data.text) ELSE data)
\* Variant: the handler passes on the 'message' key of the payload.
handle_send_public_message_MessageKey(sid, data) ==
  handle_send_message(sid, IF data.type = "dict"
                           THEN [data EXCEPT !.keys = {}, !.text = <<>>] ELSE data)
handle_send_public_message(sid, data) ==
  handle_send_message(sid, data)

PublicSendEvents == {"send_message", "message", "new_message", "send_public_message"}
\* The handler registered for each public-send event name.
public_outcome(name, sid, data) ==
  IF name = "send_message" THEN handle_send_message(sid, data)
  ELSE IF name = "message" THEN handle_message(sid, data)
  ELSE IF name = "new_message" THEN handle_new_message(sid, data)
  ELSE handle_send_public_message(sid, data)

\* A public-send event on connection sid.
public_event(name, sid, data) ==
  /\ connections[sid] # Closed
  /\ LET o == public_outcome(name, sid, data)
     IN /\ o.result \in {"dropped", "AttributeError"}
        /\ messages' = o.messages
        /\ conversations' = o.conversations
        /\ Handled(Event(name, sid, data, o.result), o.emitted)
  /\ UNCHANGED <<connections, memory, rooms, subscriptions, clientSnapshot>>

\* ------------------------------------------------------ private messages
\* The payload of a private-message event: a dict with some of the keys
\* recipient_id, text and message.
PrivateData(keys, recipient_id, body) ==
  [keys |-> keys, recipient_id |-> IF "recipient_id" \in keys THEN recipient_id ELSE NoId,
   text |-> IF "text" \in keys THEN body ELSE <<>>,
   message |-> IF "message" \in keys THEN body ELSE <<>>]
Recipients == Users \cup {NoId, Stranger}
PrivatePayloads ==
  {PrivateData(k, r, t) :
     k \in {{"recipient_id", "text"}, {"recipient_id", "message"}},
     r \in Recipients, t \in PrivateTexts}
  \cup {PrivateData({"recipient_id"}, r, <<>>) : r \in Users}
  \cup {PrivateData({"text"}, NoId, <<"h">>), PrivateData({"message"}, NoId, <<"h">>)}

\* Variant: only the recipient id is required.
MissingField_RecipientOnly(recipient_id, message_text) == recipient_id = NoId
\* "not recipient_id or not message_text"
MissingField(recipient_id, message_text) ==
  recipient_id = NoId \/ message_text = <<>>

\* handle_send_private_message (1485-1497): recipient_id is
\* data.get('recipient_id'), message_text is data.get('text') or
\* data.get('message', ''); a payload without one of them is answered with an
\* error event; the first argument of the Message constructor is
\* current_user.id.
handle_send_private_message(sid, data) ==
  LET recipient_id == get(data, "recipient_id", NoId)
      message_text == IF get(data, "text", <<>>) # <<>> THEN get(data, "text", <<>>)
                      ELSE get(data, "message", <<>>)
  IN IF ~is_authenticated(sid) THEN Stopped("dropped", <<>>)
     ELSE IF MissingField(recipient_id, message_text)
     THEN Stopped("error",
                  emit(rooms, Msg("error", "Missing recipient or message", <<>>),
                       sid, NoRoom))
     ELSE Stopped(read("id"), <<>>)

\* load_user (225-235), which Flask-Login calls when a handler first reads
\* current_user on a connection whose session names a user: its
\* objDb.session.get raises when the database is unreachable (db_up is false).
load_user(strUserId, db_up) == IF db_up THEN "ok" ELSE "OperationalError"

\* handle_private_message (1314-1326): current_user.is_authenticated loads the
\* user of a logged-in connection, and nothing catches what load_user raises;
\* data['recipient_id'] and data['message'] raise KeyError for a key the
\* payload does not have; an id that names no user is a silent return; the
\* first argument of the Message constructor is current_user.id.
handle_private_message(sid, data, db_up) ==
  IF ~is_authenticated(sid) THEN Stopped("dropped", <<>>)
  ELSE IF load_user(connections[sid], db_up) # "ok"
  THEN Stopped(load_user(connections[sid], db_up), <<>>)
  ELSE IF "recipient_id" \notin data.keys \/ "message" \notin data.keys
  THEN Stopped("KeyError", <<>>)
  ELSE IF data.recipient_id \notin Users THEN Stopped("dropped", <<>>)
  ELSE Stopped(read("id"), <<>>)

PrivateSendEvents == {"send_private_message", "private_message"}
\* The handler registered for each private-message event name.
private_outcome(name, sid, data, db_up) ==
  IF name = "send_private_message" THEN handle_send_private_message(sid, data)
  ELSE handle_private_message(sid, data, db_up)

\* A private-message event on connection sid.
private_event(name, sid, data, db_up) ==
  /\ connections[sid] # Closed
  /\ LET o == private_outcome(name, sid, data, db_up)
     IN /\ o.result \in {"dropped", "error", "KeyError", "OperationalError",
                         "AttributeError"}
        /\ messages' = o.messages
        /\ conversations' = o.conversations
        /\ Handled(Event(name, sid, data, o.result), o.emitted)
  /\ UNCHANGED <<connections, memory, rooms, subscriptions, clientSnapshot>>

\* ----------------------------------------------------------- conversations
\* Conversation(nUser1Id=..., nUser2Id=..., dtUpdatedAt=...)
Conversation(nUser1Id, nUser2Id) ==
  [nUser1Id |-> nUser1Id, nUser2Id |-> nUser2Id, nLastMessageId |-> NoId]

\* Index of the row the query of getOrCreateConversation finds (either order
\* of the ids, the first row), 0 when there is none.
FindConversation(rows, nUser1Id, nUser2Id) ==
  LET hits == {i \in DOMAIN rows :
                 \/ rows[i].nUser1Id = nUser1Id /\ rows[i].nUser2Id = nUser2Id
                 \/ rows[i].nUser1Id = nUser2Id /\ rows[i].nUser2Id = nUser1Id}
  IN IF hits = {} THEN 0 ELSE CHOOSE i \in hits : \A j \in hits : i <= j

\* Variant: the new row takes the ids in call order.
getOrCreateConversation_CallOrder(rows, nUser1Id, nUser2Id) ==
  IF FindConversation(rows, nUser1Id, nUser2Id) # 0 THEN rows
  ELSE Append(rows, Conversation(nUser1Id, nUser2Id))
\* The Conversation rows after getOrCreateConversation(nUser1Id, nUser2Id).
getOrCreateConversation(rows, nUser1Id, nUser2Id) ==
  IF FindConversation(rows, nUser1Id, nUser2Id) # 0 THEN rows
  ELSE Append(rows, Conversation(Min(nUser1Id, nUser2Id), Max(nUser1Id, nUser2Id)))

\* privateChatPage: GET /chat/<nUserId> by the logged-in user u.  An id that
\* names no user is answered 404, the user's own id with a redirect; for any
\* other user the conversation of the pair is looked up and created when
\* there is none.  The read marks the page sets are not part of the rows of
\* this model.
privateChatPage(u, nUserId) ==
  /\ conversations' =
       IF nUserId \in Users /\ nUserId # u
       THEN getOrCreateConversation(conversations, u, nUserId)
       ELSE conversations
  /\ Handled(Request("private_chat_page", u, [keys |-> {}, nUserId |-> nUserId],
                     IF nUserId \notin Users THEN "not_found"
                     ELSE IF nUserId = u THEN "redirect" ELSE "ok"),
             <<>>)
  /\ UNCHANGED <<connections, memory, rooms, messages, subscriptions, clientSnapshot>>

\* privateChatPage with other requests running between the storage calls of
\* getOrCreateConversation.  page_lookup: the checks of the page and the query;
\* a request that finds the row is done.
page_lookup(t, u, nUserId) ==
  /\ inflight[t] = Idle
  /\ \A k \in Tasks : k < t => inflight[k] # Idle
  /\ nUserId \in Users /\ nUserId # u
  /\ nEvents < MaxEvents
  /\ nEvents' = nEvents + 1
  /\ inflight' = [inflight EXCEPT ![t] =
                    IF FindConversation(conversations, u, nUserId) # 0 THEN Idle
                    ELSE [Idle EXCEPT !.pc = "page_insert", !.user = u,
                                      !.other = nUserId]]
  /\ Handled(Request("private_chat_page", u, [keys |-> {}, nUserId |-> nUserId],
                     IF FindConversation(conversations, u, nUserId) # 0
                     THEN "ok" ELSE "lookup"),
             <<>>)
  /\ UNCHANGED <<connections, memory, rooms, storage, clientSnapshot>>

\* page_insert: add of the new row and commit.
page_insert(t) ==
  /\ inflight[t].pc = "page_insert"
  /\ conversations' =
       Append(conversations, Conversation(Min(inflight[t].user, inflight[t].other),
                                          Max(inflight[t].user, inflight[t].other)))
  /\ Handled(Request("private_chat_page", inflight[t].user,
                     [keys |-> {}, nUserId |-> inflight[t].other], "ok"),
             <<>>)
  /\ inflight' = [inflight EXCEPT ![t] = Idle]
  /\ UNCHANGED <<connections, memory, rooms, messages, subscriptions, clientSnapshot,
                 nEvents>>

\* ------------------------------------------------------------ file upload
\* uploadFilePage for the logged-in user u.  file_ok is false when the request
\* has no file, an empty file name or an extension that is not allowed (400).
\* Inside the try block the file name is built from current_user.id (940);
\* the except clause answers 500 ("failed").  Nothing is stored or emitted.
uploadFilePage(u, file_ok, recipient_id) ==
  /\ read("id") = "AttributeError"
  /\ Handled(Request("upload", u,
                     [keys |-> {"recipient_id"}, file_ok |-> file_ok,
                      recipient_id |-> recipient_id],
                     IF file_ok THEN "failed" ELSE "rejected"),
             <<>>)
  /\ UNCHANGED <<connections, memory, rooms, storage, clientSnapshot>>

\* testBrowserNotification: GET /test-browser-notification/<nUserId> by the
\* logged-in user u.  An admin, or the user named, has a browser_notification
\* event sent to that user's personal room; anyone else is answered 403.
testBrowserNotification(u, nUserId) ==
  /\ Handled(Request("test_browser_notification", u,
                     [keys |-> {}, nUserId |-> nUserId],
                     IF u \in Admins \/ u = nUserId THEN "ok" ELSE "refused"),
             IF u \in Admins \/ u = nUserId
             THEN server_emit(rooms, Msg("browser_notification", "test", <<>>),
                              user_room(nUserId))
             ELSE <<>>)
  /\ UNCHANGED <<connections, memory, rooms, storage, clientSnapshot>>

\* ------------------------------------------------------ push subscriptions
SubIds(subs) == {x.id : x \in subs}

\* The JSON subscription object of a subscription request: its 'endpoint'
\* (NoEndpoint when the key is absent) and whether it has 'keys' with p256dh
\* and auth. The object with neither is the empty object.
NoEndpoint == ""
Endpoints == {"a", "b"}
SubscriptionData == [endpoint : Endpoints \cup {NoEndpoint}, keys : BOOLEAN]
FullData(e) == [endpoint |-> e, keys |-> TRUE]

\* Variant: the rows the user already has are kept.
replace_subscription_KeepOld(subs, u, data) ==
  LET newId == IF subs = {} THEN 1
               ELSE 1 + (CHOOSE m \in SubIds(subs) : \A n \in SubIds(subs) : n <= m)
  IN IF data.endpoint = NoEndpoint \/ ~data.keys
     THEN [subscriptions |-> subs, newId |-> NoId, result |-> "raised"]
     ELSE [subscriptions |-> subs \cup
                               {[id |-> newId, user |-> u, endpoint |-> data.endpoint]},
           newId |-> newId, result |-> "ok"]

\* The try-body both routes share after their validation: DELETE of the
\* user's rows, construction of the new row, add and commit. Reading a key the
\* object does not have raises after the DELETE and before the commit, so the
\* DELETE is not committed (rollback in subscribe, the request's session being
\* removed at teardown in subscribePush).
replace_subscription(subs, u, data) ==
  LET others == {x \in subs : x.user # u}
      newId == IF others = {} THEN 1
               ELSE 1 + (CHOOSE m \in SubIds(others) : \A n \in SubIds(others) : n <= m)
  IN IF data.endpoint = NoEndpoint \/ ~data.keys
     THEN [subscriptions |-> subs, newId |-> NoId, result |-> "raised"]
     ELSE [subscriptions |-> others \cup
                               {[id |-> newId, user |-> u, endpoint |-> data.endpoint]},
           newId |-> newId, result |-> "ok"]

\* POST /subscribe with the subscription object as the body.
subscribe(u, objSubscriptionData) ==
  /\ LET o == IF objSubscriptionData.endpoint = NoEndpoint
              THEN [subscriptions |-> subscriptions, newId |-> NoId, result |-> "invalid"]
              ELSE replace_subscription(subscriptions, u, objSubscriptionData)
     IN /\ o.result = "ok" => o.newId <= MaxSubs
        /\ subscriptions' = o.subscriptions
        /\ Handled(Request("subscribe", u, objSubscriptionData, o.result), <<>>)
  /\ UNCHANGED <<connections, memory, rooms, messages, conversations, clientSnapshot>>

\* POST /api/subscribe-push with a body whose 'subscription' key holds the
\* subscription object; the empty sequence is a body without that key.
PushBodies == {[subscription |-> <<>>]} \cup
              {[subscription |-> <<d>>] : d \in SubscriptionData}

subscribePush(u, objData) ==
  /\ LET objSubscriptionData == IF objData.subscription = <<>>
                                THEN [endpoint |-> NoEndpoint, keys |-> FALSE]
                                ELSE objData.subscription[1]
         o == IF objSubscriptionData = [endpoint |-> NoEndpoint, keys |-> FALSE]
              THEN [subscriptions |-> subscriptions, newId |-> NoId, result |-> "invalid"]
              ELSE replace_subscription(subscriptions, u, objSubscriptionData)
     IN /\ o.result = "ok" => o.newId <= MaxSubs
        /\ subscriptions' = o.subscriptions
        /\ Handled(Request("subscribe_push", u, objSubscriptionData, o.result), <<>>)
  /\ UNCHANGED <<connections, memory, rooms, messages, conversations, clientSnapshot>>

\* subscribe with other requests running between its storage calls.
\* sub_begin: the DELETE of the user's rows; it takes effect for the other
\* requests when this request commits.
sub_begin(t, u) ==
  /\ inflight[t] = Idle
  /\ \A k \in Tasks : k < t => inflight[k] # Idle
  /\ nEvents < MaxEvents - 1
  /\ nEvents' = nEvents + 1
  /\ inflight' = [inflight EXCEPT ![t] =
                    [Idle EXCEPT !.pc = "sub_commit", !.user = u,
                                 !.deleted = {x \in subscriptions : x.user = u}]]
  /\ UNCHANGED <<connections, memory, rooms, storage, emitted, pushCalls, pushLog,
                 clientSnapshot, last>>

\* sub_commit: add of the new row and commit.
sub_commit(t) ==
  /\ inflight[t].pc = "sub_commit"
  /\ LET remaining == subscriptions \ inflight[t].deleted
         newId == IF remaining = {} THEN 1
                  ELSE 1 + (CHOOSE m \in SubIds(remaining) :
                              \A n \in SubIds(remaining) : n <= m)
     IN /\ newId <= MaxSubs
        /\ subscriptions' = remaining \cup {[id |-> newId, user |-> inflight[t].user,
                                          endpoint |-> "a"]}
  /\ Handled(Request("subscribe", inflight[t].user, FullData("a"), "ok"), <<>>)
  /\ inflight' = [inflight EXCEPT ![t] = Idle]
  /\ UNCHANGED <<connections, memory, rooms, messages, conversations, clientSnapshot,
                 nEvents>>

\* ----------------------------------------------------------- push delivery
\* The outcome of one webpush() call: the HTTP status of the push service's
\* response, or NoResponse when the call raised without a response (no
\* connection, bad key).  webpush raises WebPushException, carrying the
\* response, for every status above 202.
NoResponse == 0
Created == 201
Gone == 410
ServerError == 500
PushResults == {Created, Gone, ServerError, NoResponse}

\* bool(objWebPushError.response): the response is a requests.Response, whose
\* truth value is Response.ok, false for every status from 400 up.
response_truthy(status) == status # NoResponse /\ status < 400
\* "objWebPushError.response and objWebPushError.response.status_code == 410"
Expired(status) == response_truthy(status) /\ status = Gone

\* The rows the for loop of send_web_push still has to attempt after the
\* attempt on the first of ids: both except clauses end the iteration only.
rest_of_loop(ids, status) == Tail(ids)

\* The ids of the rows send_web_push loads for a user, in id order.
arrSubscriptions(subs, nUserId) ==
  SortedSeq({x.id : x \in {y \in subs : y.user = nUserId}})

\* send_web_push up to its first webpush() call: the rows are loaded once; a
\* call for a user without rows returns at once, any other waits in the loop.
\* The value is the slot of the caller.
send_web_push(nUserId, strBody) ==
  IF arrSubscriptions(subscriptions, nUserId) = <<>> THEN Idle
  ELSE [Idle EXCEPT !.pc = "push", !.user = nUserId, !.text = strBody,
                    !.ids = arrSubscriptions(subscriptions, nUserId)]

\* testPushNotification: GET /test-push/<nUserId> by the logged-in user u, up
\* to the first webpush() call.  A user who is no admin is answered 403.
TestPushBody == <<"This is a test push notification from Chattrix!">>
testPushNotification(t, u, nUserId) ==
  /\ inflight[t] = Idle
  /\ \A k \in Tasks : k < t => inflight[k] # Idle
  /\ nEvents < MaxEvents - 1
  /\ nEvents' = nEvents + 1
  /\ emitted' = <<>> /\ pushLog' = <<>>
  /\ IF u \in Admins
     THEN /\ pushCalls' = <<[user |-> nUserId, body |-> TestPushBody]>>
          /\ inflight' = [inflight EXCEPT ![t] = send_web_push(nUserId, TestPushBody)]
     ELSE /\ pushCalls' = <<>>
          /\ UNCHANGED inflight
  /\ last' = Request("test_push", u, [keys |-> {}, nUserId |-> nUserId],
                     IF u \in Admins THEN "ok" ELSE "refused")
  /\ UNCHANGED <<connections, memory, rooms, storage, clientSnapshot>>

\* The end of one webpush() call of the loop in slot t, answered with status:
\* the attempt is logged, an answer that counts as expired deletes the row,
\* and the loop goes on with the rows that remain.
push_attempt(t, status) ==
  /\ inflight[t].pc = "push"
  /\ LET run == inflight[t]
         id == Head(run.ids)
         entry == [user |-> run.user, sub |-> id, body |-> run.text, result |-> status]
         rest == rest_of_loop(run.ids, status)
     IN /\ subscriptions' = IF Expired(status) THEN {x \in subscriptions : x.id # id}
                            ELSE subscriptions
        /\ pushLog' = <<entry>>
        /\ last' = Request("push_attempt", NoId,
                           [keys |-> {}, user |-> run.user, sub |-> id], "ok")
        /\ inflight' = [inflight EXCEPT ![t] =
                          IF rest = <<>> THEN Idle
                          ELSE [run EXCEPT !.ids = rest, !.log = Append(run.log, entry)]]
  /\ emitted' = <<>> /\ pushCalls' = <<>>
  /\ UNCHANGED <<connections, memory, rooms, messages, conversations, clientSnapshot,
                 nEvents>>

\* ------------------------------------------------------- specifications
Connect == \E u \in Users \cup {Anonymous} : handle_connect(u)
Disconnect == \E sid \in Sids : handle_disconnect(sid)
UserLocation == \E sid \in Sids, location \in Locations : handle_user_location(sid, location)
JoinUserRoom == \E sid \in Sids : handle_join_user_room(sid)
JoinPrivateRoom ==
  \E sid \in Sids, a \in Users, b \in Users : handle_join_private_room(sid, a, b)
GetOnlineUsers == \E sid \in Sids : handle_get_online_users(sid)
Heartbeat == \E sid \in Sids : handle_heartbeat(sid)
UserJoined == \E sid \in Sids : handle_user_joined(sid)
ChatTypes == {"public", "private"}
Typing ==
  \E sid \in Sids, chat_type \in ChatTypes, r \in Users \cup {NoId} :
     handle_typing(sid, chat_type, r)
MessageIds == {NoId, 1}
PinMessage == \E sid \in Sids, id \in MessageIds : handle_pin_message(sid, id)
UnpinMessage == \E sid \in Sids, id \in MessageIds : handle_unpin_message(sid, id)
SendMessage == \E sid \in Sids, data \in Payloads : public_event("send_message", sid, data)
PublicEvent ==
  \E name \in PublicSendEvents, sid \in Sids, data \in Payloads :
     public_event(name, sid, data)
SendPrivateMessage ==
  \E sid \in Sids, data \in PrivatePayloads :
     private_event("send_private_message", sid, data, TRUE)
PrivateEvent ==
  \E name \in PrivateSendEvents, sid \in Sids, data \in PrivatePayloads :
     private_event(name, sid, data, TRUE)
PrivateChatPage ==
  \E u \in Users, nUserId \in Users \cup {Stranger} : privateChatPage(u, nUserId)
Upload ==
  \E u \in Users, file_ok \in BOOLEAN, r \in Users \cup {NoId} : uploadFilePage(u, file_ok, r)
TestBrowserNotification == \E u \in Users, nUserId \in Users : testBrowserNotification(u, nUserId)

\* Every specification handles at most MaxEvents events.
Counted(A) ==
  nEvents < MaxEvents /\ A /\ nEvents' = nEvents + 1 /\ UNCHANGED inflight

\* Some specifications take runs one event shorter than the others.
Brief(A) == nEvents < MaxEvents - 1 /\ Counted(A)

\* The specification of every event takes runs two events shorter.
Short(A) == nEvents < MaxEvents - 2 /\ Counted(A)

\* Presence and rooms.
NextPresence ==
  \/ Counted(Connect)
  \/ Counted(Disconnect)
  \/ Counted(JoinUserRoom)
  \/ Counted(JoinPrivateRoom)
  \/ Counted(GetOnlineUsers)

SpecPresence == Init /\ [][NextPresence]_vars

\* Public chat.
NextPublic ==
  \/ Counted(Connect)
  \/ Counted(Disconnect)
  \/ Counted(UserLocation)
  \/ Counted(SendMessage)

SpecPublic == Init /\ [][NextPublic]_vars

\* Private chat: the private send and the page that opens a conversation.
NextPrivate ==
  \/ Counted(Connect)
  \/ Counted(Disconnect)
  \/ Counted(UserLocation)
  \/ Counted(PrivateChatPage)
  \/ Counted(SendPrivateMessage)

SpecPrivate == Init /\ [][NextPrivate]_vars

\* Private messages next to conversation pages that interleave at the
\* storage calls of getOrCreateConversation.
PageLookup == \E t \in Tasks, u \in Users, nUserId \in Users : page_lookup(t, u, nUserId)
PageInsert == \E t \in Tasks : page_insert(t)
FirstMessage ==
  \E name \in PrivateSendEvents, sid \in Sids, r \in Users :
     private_event(name, sid, PrivateData({"recipient_id", "message"}, r, <<"h">>), TRUE)

NextRace ==
  \/ Counted(Connect)
  \/ Counted(FirstMessage)
  \/ PageLookup
  \/ PageInsert

SpecRace == Init /\ [][NextRace]_vars

\* Push delivery: test pushes that wait in each webpush() call, with
\* subscribe requests that interleave at their storage calls.
SubBegin == \E t \in Tasks, u \in Users : sub_begin(t, u)
SubCommit == \E t \in Tasks : sub_commit(t)
TestPush == \E t \in Tasks, u \in Users, nUserId \in Users : testPushNotification(t, u, nUserId)
PushAttempt == \E t \in Tasks, status \in PushResults : push_attempt(t, status)

NextPush ==
  \/ Brief(Connect)
  \/ SubBegin
  \/ SubCommit
  \/ TestPush
  \/ PushAttempt

SpecPush == Init /\ [][NextPush]_vars

\* Pin and unpin requests.
NextPin ==
  \/ Counted(Connect)
  \/ Counted(Disconnect)
  \/ Counted(PinMessage)
  \/ Counted(UnpinMessage)

SpecPin == Init /\ [][NextPin]_vars

\* Private messages while the database may fail.
PrivateMessageDb ==
  \E sid \in Sids, r \in Users, db_up \in BOOLEAN,
     keys \in {{"recipient_id", "message"}, {"recipient_id"}} :
     private_event("private_message", sid, PrivateData(keys, r, <<"h">>), db_up)

NextStorageError ==
  \/ Counted(Connect)
  \/ Counted(Disconnect)
  \/ Counted(JoinPrivateRoom)
  \/ Counted(PrivateMessageDb)

SpecStorageError == Init /\ [][NextStorageError]_vars

\* The four public-send event names.
NextAlias ==
  \/ Counted(Connect)
  \/ Counted(Disconnect)
  \/ Counted(PublicEvent)

SpecAlias == Init /\ [][NextAlias]_vars

\* Typing indicators.
NextTyping ==
  \/ Counted(Connect)
  \/ Counted(Disconnect)
  \/ Counted(Typing)

SpecTyping == Init /\ [][NextTyping]_vars

\* The two private-message event names.
NextPrivateAlias ==
  \/ Counted(Connect)
  \/ Counted(Disconnect)
  \/ Counted(PrivateEvent)

SpecPrivateAlias == Init /\ [][NextPrivateAlias]_vars

\* Every Socket.IO event, on connections that are logged in and on
\* connections that are not, next to the upload and the test-notification
\* routes.
NextGate ==
  \/ Short(Connect)
  \/ Short(Disconnect)
  \/ Short(UserLocation)
  \/ Short(JoinUserRoom)
  \/ Short(JoinPrivateRoom)
  \/ Short(GetOnlineUsers)
  \/ Short(PublicEvent)
  \/ Short(PrivateEvent)
  \/ Short(PinMessage)
  \/ Short(UnpinMessage)
  \/ Short(Typing)
  \/ Short(Heartbeat)
  \/ Short(UserJoined)
  \/ Short(Upload)
  \/ Short(TestBrowserNotification)

SpecGate == Init /\ [][NextGate]_vars

\* Subscription requests handled one after another.
Subscribe == \E u \in Users, d \in SubscriptionData : subscribe(u, d)
SubscribePush == \E u \in Users, d \in PushBodies : subscribePush(u, d)

NextSubscribe ==
  \/ Counted(Subscribe)
  \/ Counted(SubscribePush)

SpecSubscribe == Init /\ [][NextSubscribe]_vars

\* ---------------------------------------------------------------- claims
Got(s, ev) == {i \in DOMAIN emitted : emitted[i].sid = s /\ emitted[i].event = ev}
PushCalled(u) == \E i \in DOMAIN pushCalls : pushCalls[i].user = u
AuthSids == {s \in Sids : connections[s] \in Users}
Location(u) ==
  IF DictHas(dictUserLocations, u) THEN DictGet(dictUserLocations, u)
  ELSE [kind |-> "absent", other |-> NoId]
Notified(u) ==
  /\ \A s \in SidsOf(u) : Got(s, "notification") # {}
  /\ PushCalled(u)
\* The body a private-message payload carries under either key.
BodyOf(data) ==
  IF get(data, "text", <<>>) # <<>> THEN get(data, "text", <<>>)
  ELSE get(data, "message", <<>>)
\* The last event is a public send that passes the checks of its handler: a
\* logged-in sender and a dict payload whose text is not blank.
AcceptedPublic ==
  /\ last.name \in PublicSendEvents
  /\ last.user \in Users
  /\ last.data.type = "dict"
  /\ \E i \in DOMAIN get(last.data, "text", <<>>) : last.data.text[i] # Blank
\* The last event is a send_private_message that passes the checks of its
\* handler: a logged-in sender, a recipient id that names another user and a
\* body that is not empty.
AcceptedPrivate ==
  /\ last.name = "send_private_message"
  /\ last.user \in Users
  /\ get(last.data, "recipient_id", NoId) \in Users \ {last.user}
  /\ BodyOf(last.data) # <<>>
\* The preview the notification of a message is to carry.
Ellipsis == <<".", ".", ".">>
PublicPreviewLen == 50
Preview(t, n) == SubSeq(t, 1, Min(n, Len(t))) \o (IF Len(t) > n THEN Ellipsis ELSE <<>>)
\* Conversation rows of the unordered pair {a, b}.
RowsOf(a, b) == {i \in DOMAIN conversations :
                   {conversations[i].nUser1Id, conversations[i].nUser2Id} = {a, b}}

\* C1: after a public send that passes the checks of its handler, a message
\* is stored and every open connection has been sent exactly one
\* receive_message event that carries the id of the newest stored message.
C1_PublicReachesEveryClient ==
  AcceptedPublic =>
    /\ messages # <<>>
    /\ \A s \in OpenSids :
         Cardinality({i \in Got(s, "receive_message") : emitted[i].id = Len(messages)}) = 1

\* C3: after a public send from s that passes the checks of its handler, every
\* connected user u # s without an entry in the location map has been sent a
\* notification event on each connection and has had a push call.
C3_AbsentLocationIsNotified ==
  AcceptedPublic =>
    \A u \in Users \ {last.user} :
       (SidsOf(u) # {} /\ ~DictHas(dictUserLocations, u)) => Notified(u)

\* C4: after a send_private_message from A to B that passes the checks of its
\* handler, the newest stored message has sender A, recipient B and the
\* private flag, and every connection in A's and in B's personal room has been
\* sent a receive_private_message event with the id of that message.
C4_PrivateReachesBothRooms ==
  AcceptedPrivate =>
    /\ messages # <<>>
    /\ messages[Len(messages)].nSenderId = last.user
    /\ messages[Len(messages)].nRecipientId = last.data.recipient_id
    /\ messages[Len(messages)].bIsPrivate
    /\ \A s \in RoomSids(rooms, user_room(last.user))
                \cup RoomSids(rooms, user_room(last.data.recipient_id)) :
         \E i \in Got(s, "receive_private_message") : emitted[i].id = Len(messages)

\* C5: after a send_private_message from A to B that passes the checks of its
\* handler, B has been sent a notification event and has had a push call
\* exactly when B's tracked location is not the private view of A.
C5_NotifyUnlessViewing ==
  AcceptedPrivate =>
    ((Location(last.data.recipient_id) # PrivateChat(last.user))
       <=> (/\ PushCalled(last.data.recipient_id)
            /\ \E i \in DOMAIN emitted : emitted[i].event = "notification"))

\* C6: a user id is in the online registry exactly when the user holds at
\* least one open connection.
C6_RegistryIffConnected ==
  \A u \in Users : DictHas(dictOnlineUsers, u) <=> SidsOf(u) # {}

\* C8: once the disconnect of a connection of user u has been handled, u has
\* no entry in the location map and none in the registry, and no room lists
\* that connection.
C8_DisconnectCleansUp ==
  (last.name = "disconnect" /\ last.user \in Users) =>
    /\ ~DictHas(dictUserLocations, last.user)
    /\ ~DictHas(dictOnlineUsers, last.user)
    /\ \A m \in rooms : m[2] # last.sid

\* C9: once a connect or disconnect of a logged-in user has been handled, every
\* open connection has been sent an online_users event and holds the values
\* of the registry as its snapshot.
C9_SnapshotReachesEveryClient ==
  (last.name \in {"connect", "disconnect"} /\ last.user \in Users) =>
    \A s \in OpenSids :
       /\ Got(s, "online_users") # {}
       /\ clientSnapshot[s] = << DictValues(dictOnlineUsers) >>

\* C10: join_private_room puts the connection in the room computed for the
\* two ids in the other order as well, and a join by a connection that is
\* already in that room leaves the memberships as they were.
C10_PairRoomSymmetricIdempotent ==
  [][(last'.name = "join_private_room" /\ last'.user \in Users) =>
       /\ <<private_room(last'.data.user2_id, last'.data.user1_id), last'.sid>> \in rooms'
       /\ <<private_room(last'.data.user2_id, last'.data.user1_id), last'.sid>> \in rooms
            => rooms' = rooms]_vars

C10_Witness ==
  /\ last.name = "join_private_room"
  /\ last.user \in Users
  /\ last.data.user1_id > last.data.user2_id
  /\ <<private_room(last.data.user1_id, last.data.user2_id), last.sid>> \in rooms

\* C11: a public send (send_message or an alias) whose text is empty or only
\* whitespace stores no message, delivers no event to any client and makes no
\* notification and no push attempt; with a dict payload the handler returns
\* at its check of the text.
C11_BlankPublicSendIsDropped ==
  [][(/\ last'.name \in PublicSendEvents
      /\ last'.user \in Users
      /\ \A i \in DOMAIN last'.data.text : last'.data.text[i] = Blank)
       => /\ messages' = messages
          /\ emitted' = <<>>
          /\ pushCalls' = <<>>
          /\ pushLog' = <<>>
          /\ last'.data.type = "dict" => last'.result = "dropped"]_vars

\* The case on an alias of send_message, with another user connected.
C11_Witness ==
  /\ last.name \in PublicSendEvents \ {"send_message"}
  /\ last.user \in Users
  /\ last.data.type = "dict"
  /\ last.data.text = <<Blank>>
  /\ last.result = "dropped"
  /\ \E u \in Users : u # last.user /\ SidsOf(u) # {}

\* C12: a send_private_message from a logged-in sender without a recipient id,
\* or with a recipient id and an empty body, delivers one error event to the
\* sender's connection and nothing to any other connection, stores no message,
\* leaves the conversations as they were and makes no push attempt.
C12_IncompletePrivateSendIsRefused ==
  [][(/\ last'.name = "send_private_message"
      /\ last'.user \in Users
      /\ (get(last'.data, "recipient_id", NoId) = NoId \/ BodyOf(last'.data) = <<>>))
       => /\ Len(emitted') = 1
          /\ emitted'[1].sid = last'.sid
          /\ emitted'[1].event = "error"
          /\ messages' = messages
          /\ conversations' = conversations
          /\ pushCalls' = <<>>
          /\ pushLog' = <<>>]_vars

C12_Witness ==
  /\ last.name = "send_private_message"
  /\ last.user \in Users
  /\ get(last.data, "recipient_id", NoId) \in Users \ {last.user}
  /\ BodyOf(last.data) = <<>>
  /\ last.result = "error"
  /\ Got(last.sid, "error") # {}
  /\ SidsOf(last.data.recipient_id) # {}
  /\ conversations # <<>>

\* C13: after a send_private_message from A to B that passes the checks of its
\* handler, storage holds exactly one Conversation row for the pair {A, B}.
C13_OneConversationPerPair ==
  AcceptedPrivate => Cardinality(RowsOf(last.user, last.data.recipient_id)) = 1

\* C14: when no request is between two storage calls, no pair of users has
\* more than one Conversation row, and the pair of a private message that has
\* just been handled (sender and recipient two different users) has exactly
\* one.
C14_ConcurrentFirstMessagesOneRow ==
  (\A t \in Tasks : inflight[t] = Idle) =>
    /\ \A a \in Users, b \in Users : Cardinality(RowsOf(a, b)) <= 1
    /\ (/\ last.name \in PrivateSendEvents
        /\ last.user \in Users
        /\ last.data.recipient_id \in Users \ {last.user})
         => Cardinality(RowsOf(last.user, last.data.recipient_id)) = 1

\* C17: a pin_message or unpin_message from a connection that is not an
\* admin's, or without a message id, changes no message row, delivers an
\* error event to the issuing connection and to no other, and delivers no
\* other event.
C17_RefusedPinChangesNothing ==
  [][(/\ last'.name \in {"pin_message", "unpin_message"}
      /\ (last'.user \notin Admins \/ last'.data.message_id = NoId))
       => /\ messages' = messages
          /\ emitted' # <<>>
          /\ \A i \in DOMAIN emitted' :
               emitted'[i].sid = last'.sid /\ emitted'[i].event = "error"]_vars

\* C19: once a push attempt on a subscription has been answered with HTTP
\* 410, that subscription is no longer stored.
C19_ExpiredSubscriptionIsDeleted ==
  (last.name = "push_attempt" /\ pushLog[1].result = Gone)
    => last.data.sub \notin SubIds(subscriptions)

\* C21: when a storage call raises inside a message handler, the connection
\* that sent the event is sent an error event, and the registry, the rooms
\* and the location map are as before the event.
C21_StorageErrorIsReported ==
  [][(last'.name \in PrivateSendEvents /\ last'.result = "OperationalError")
       => /\ \E i \in DOMAIN emitted' :
               emitted'[i].sid = last'.sid /\ emitted'[i].event = "error"
          /\ memory' = memory
          /\ rooms' = rooms]_vars

\* C23: a public-send event with a dict payload, whatever its event name, ends
\* as send_message ends for that payload on that connection: the same result,
\* the same stored messages, the same events delivered and the same push
\* calls.
C23_AliasesSameOutcome ==
  [][(last'.name \in PublicSendEvents /\ last'.data.type = "dict")
       => /\ last'.result = handle_send_message(last'.sid, last'.data).result
          /\ messages' = handle_send_message(last'.sid, last'.data).messages
          /\ emitted' = handle_send_message(last'.sid, last'.data).emitted
          /\ pushCalls' = handle_send_message(last'.sid, last'.data).calls]_vars

C23_Witness ==
  /\ last.name = "send_public_message"
  /\ last.user \in Users
  /\ last.data.type = "dict"
  /\ last.data.text = <<" ", "h">>
  /\ last.result = "AttributeError"
  /\ \E s \in OpenSids : s # last.sid

\* C24: a public-send event whose payload is a bare string, on any of the four
\* event names, ends as send_message ends for the dict payload whose text is
\* that string.
C24_BareStringIsCoerced ==
  [][(last'.name \in PublicSendEvents /\ last'.data.type = "str")
       => /\ last'.result = handle_send_message(last'.sid, Dict(last'.data.text)).result
          /\ messages' = handle_send_message(last'.sid, Dict(last'.data.text)).messages
          /\ emitted' = handle_send_message(last'.sid, Dict(last'.data.text)).emitted]_vars

\* C25: a typing event stores nothing; with chat type private and a recipient
\* id the user_typing event is delivered to the connections of the recipient's
\* personal room and to no other; otherwise it is delivered to every open
\* connection but the sender's.
C25_TypingRouting ==
  [][(last'.name = "typing" /\ last'.user \in Users)
       => /\ messages' = messages
          /\ \A s \in Sids :
               (\E i \in DOMAIN emitted' :
                   emitted'[i].sid = s /\ emitted'[i].event = "user_typing")
               <=> s \in (IF /\ last'.data.chat_type = "private"
                             /\ last'.data.recipient_id # NoId
                          THEN RoomSids(rooms, user_room(last'.data.recipient_id))
                          ELSE OpenSids \ {last'.sid})]_vars

\* C26: an event on a connection that is not logged in leaves the online
\* registry, the location map, the rooms and the stored rows as they were, and
\* the only thing it may emit is an error event to the connection it came from.
GatedEvents ==
  PublicSendEvents \cup PrivateSendEvents
  \cup {"connect", "user_location", "join_user_room", "join_private_room",
        "pin_message", "unpin_message", "typing", "heartbeat"}
C26_AnonymousEventChangesNothing ==
  [][(last'.name \in GatedEvents /\ last'.user = Anonymous)
     => /\ memory' = memory
        /\ rooms' = rooms
        /\ storage' = storage
        /\ clientSnapshot' = clientSnapshot
        /\ pushCalls' = <<>>
        /\ \A i \in DOMAIN emitted' :
             emitted'[i].sid = last'.sid /\ emitted'[i].event = "error"]_vars
C26_Witness ==
  /\ last.name = "pin_message" /\ last.user = Anonymous
  /\ Got(last.sid, "error") # {}
  /\ \E s \in AuthSids : s # last.sid

\* C30: a private_message event of a logged-in connection ends as
\* send_private_message ends for the same payload on that connection: the same
\* result, the same events delivered, the same stored messages and
\* conversations.
C30_PrivateAliasSameOutcome ==
  [][(last'.name = "private_message" /\ last'.user \in Users)
       => /\ last'.result = handle_send_private_message(last'.sid, last'.data).result
          /\ emitted' = handle_send_private_message(last'.sid, last'.data).emitted
          /\ messages' = handle_send_private_message(last'.sid, last'.data).messages
          /\ conversations' =
               handle_send_private_message(last'.sid, last'.data).conversations]_vars

\* C31: a private-message event of a logged-in connection whose recipient id
\* names no user, with a body, delivers an error event to the sender's
\* connection and to no other, and stores no message and no conversation.
C31_UnknownRecipientIsRefused ==
  [][(/\ last'.name \in PrivateSendEvents
      /\ last'.user \in Users
      /\ last'.data.keys = {"recipient_id", "message"}
      /\ last'.data.recipient_id = Stranger
      /\ last'.data.message # <<>>)
       => /\ emitted' # <<>>
          /\ \A i \in DOMAIN emitted' :
               emitted'[i].sid = last'.sid /\ emitted'[i].event = "error"
          /\ messages' = messages
          /\ conversations' = conversations]_vars

\* C33: after a public send that passes the checks of its handler, with a
\* connected user other than the sender who has no entry in the location map,
\* a notification event has been delivered and a push call made, and both
\* carry the preview of the stripped text: its first 50 characters, followed
\* by an ellipsis when the text is longer.
C33_PreviewIsBoundedPrefix ==
  (AcceptedPublic /\ \E u \in Users \ {last.user} :
                        SidsOf(u) # {} /\ ~DictHas(dictUserLocations, u))
    => /\ \E i \in DOMAIN emitted :
            /\ emitted[i].event = "notification"
            /\ emitted[i].body = Preview(strip(last.data.text), PublicPreviewLen)
       /\ \E j \in DOMAIN pushCalls :
            pushCalls[j].body = Preview(strip(last.data.text), PublicPreviewLen)

\* C36: every conversation row has its first user id below its second: the
\* ids are in ascending order and no row pairs a user with themselves.
C36_ConversationRowsCanonical ==
  \A i \in DOMAIN conversations :
     /\ conversations[i].nUser1Id <= conversations[i].nUser2Id
     /\ conversations[i].nUser1Id # conversations[i].nUser2Id
C36_Witness ==
  /\ last.name = "private_chat_page"
  /\ last.result = "ok"
  /\ last.user > last.data.nUserId
  /\ \E i \in DOMAIN conversations :
       /\ conversations[i].nUser1Id = last.data.nUserId
       /\ conversations[i].nUser2Id = last.user

\* C38: every open connection in a pairwise private room is logged in as one
\* of the two users the room is named after.
C38_PairRoomHoldsOnlyThePair ==
  \A m \in PairMemberships :
     connections[m[2]] # Closed => connections[m[2]] \in {m[1].a, m[1].b}

\* C39: the location entry of a user changes only in a user_location event of
\* a connection logged in as that user, and the message, pin, typing,
\* heartbeat and get_online_users events leave the online registry and the
\* location map as they were.
FrameEvents ==
  PublicSendEvents \cup PrivateSendEvents
  \cup {"pin_message", "unpin_message", "typing", "heartbeat", "get_online_users"}
C39_MapsChangeOnlyByPresenceEvents ==
  [][/\ \A u \in Users :
          (\/ DictHas(dictUserLocations, u) # DictHas(dictUserLocations', u)
           \/ (DictHas(dictUserLocations, u)
               /\ DictGet(dictUserLocations, u) # DictGet(dictUserLocations', u)))
          => (last'.name = "user_location" /\ last'.user = u)
     /\ last'.name \in FrameEvents => memory' = memory]_vars
C39_Witness ==
  /\ last.name = "typing"
  /\ last.user \in Users
  /\ last.data.chat_type = "private"
  /\ SidsOf(last.data.recipient_id) # {}

\* C40: with subscription requests handled one after another, a successful
\* request leaves its user with exactly one stored subscription, the one it
\* asked to store; a refused or failed request leaves the stored
\* subscriptions as they were; no request changes the rows of another user;
\* so each user has at most one stored subscription.
SubscriptionsOf(subs, u) == {x \in subs : x.user = u}
C40_OneSubscriptionPerUserTheLatest ==
  [][/\ last'.result = "ok" =>
          /\ Cardinality(SubscriptionsOf(subscriptions', last'.user)) = 1
          /\ \A x \in SubscriptionsOf(subscriptions', last'.user) :
                x.endpoint = last'.data.endpoint
     /\ last'.result # "ok" => subscriptions' = subscriptions
     /\ \A u \in Users \ {last'.user} :
          SubscriptionsOf(subscriptions', u) = SubscriptionsOf(subscriptions, u)
     /\ \A u \in Users : Cardinality(SubscriptionsOf(subscriptions', u)) <= 1]_vars
C40_Witness ==
  /\ last.name = "subscribe_push" /\ last.result = "ok"
  /\ \E x \in SubscriptionsOf(subscriptions, last.user) : x.endpoint = "b"
  /\ \E u \in Users \ {last.user} : SubscriptionsOf(subscriptions, u) # {}

====
